---- MODULE Spec2Model ----
(***************************************************************************)
(* Model of ssanchors (anchor stimuli for source-separation listening      *)
(* tests): the clip guard of utilities.py, the spectral dropout and        *)
(* lowpass steps of anchors.py, and the loudness-matched composers.        *)
(*                                                                         *)
(* Four specifications share the module:                                   *)
(*   SpecClip    - ensure_audio_doesnt_clip on a batch of buffers          *)
(*   SpecDrop    - distorted_target / musical_noise on a spectrogram       *)
(*   SpecCompose - the five composers on Wave objects of a caller's heap   *)
(*   SpecCli     - one run of the ssanchors command, step by step          *)
(* Each one leaves the variables of the others at their idle values.       *)
(***************************************************************************)
EXTENDS Integers, Sequences, FiniteSets

VARIABLES
    \* ---- clip guard (utilities.py) ----
    list_of_arrays,      \* the batch handed to ensure_audio_doesnt_clip
    new_list_of_arrays,  \* what it returned (samples as exact fractions)
    clip_pc,             \* "ready" before the call, "done" after it
    \* ---- spectral operators (anchors.py) ----
    call,                \* the arguments of the distorted_target / musical_noise call
    x_stft,              \* stft.process(target): the spectrogram before any zeroing
    x_drop,              \* x_fft after the dropout step, before the lowpass mask
    x_fft,               \* x_fft as handed to istft.process
    idx,                 \* the indices np.random.choice returned
    sampled,             \* whether np.random.choice drew indices (it returned)
    drop_pc,             \* "ready", "ok" (an anchor was returned) or "error"
    returned,            \* the Wave distorted_target / musical_noise returned
    \* ---- composers (anchors.py) on the caller's Wave objects ----
    waves,               \* the caller's Wave objects: the target and the other sources
    others,              \* the others argument: a list of Waves or a single Wave
    before,              \* waves as they were when the last call started
    last,                \* the last composer call: its name and relative_loudness
    anchor,              \* the Wave the last call returned
    summed,              \* the sums the last call computed, each with its operands
    \* ---- one run of the ssanchors command (cli.py) ----
    args,                \* the parsed command line
    cli_pc,              \* where the run is: "generate", "guard", "write" or "raised"
    step,                \* the anchor type the generation has come to (1..5, then 6)
    anchors,             \* the OrderedDict of generated anchors, in insertion order
    guard_calls,         \* how many times ensure_audio_doesnt_clip was called
    written              \* the files written so far: name and samples, in order

clipVars == <<list_of_arrays, new_list_of_arrays, clip_pc>>
dropVars == <<call, x_stft, x_drop, x_fft, idx, sampled, drop_pc, returned>>
compVars == <<waves, others, before, last, anchor, summed>>
cliVars == <<args, cli_pc, step, anchors, guard_calls, written>>
vars == <<clipVars, dropVars, compVars, cliVars>>

\* An optional value: None, or Some(v) holding v.
None == <<>>
Some(v) == <<v>>
The(o) == o[1]

Abs(x) == IF x < 0 THEN -x ELSE x

Max(a, b) == IF a >= b THEN a ELSE b

(***************************************************************************)
(* Bounds of the model.                                                    *)
(***************************************************************************)
\* Samples are integers in units of 1/Unit: the sample value 1.0 is Unit.
Unit == 2
\* The longest buffer and the largest batch the clip guard is given.
MaxSamples == 2
MaxBuffers == 2
\* The transform length and the sample rate of the target (the code's default
\* num_points is 2048), the most time frames of a spectrogram, the denominator
\* of the distortion factors tried and the highest lowpass cutoff in Hz.
NumPoints == 2
SampleRate == 4
MaxFrames == 2
DfDen == 5
MaxCutoff == 4
\* The most other sources a caller passes.
MaxOthers == 2

(***************************************************************************)
(* Clip guard: utilities.py, ensure_audio_doesnt_clip.                     *)
(***************************************************************************)
\* gain = 0.999 / max_peak: the 0.999 as the fraction GainNum / GainDen.
GainNum == 999
GainDen == 1000

\* Sample values: -(1 + 1/Unit), 1/Unit and exactly 1.0.
SampleVals == {-(Unit + 1), 1, Unit}

\* The buffers tried: 1..MaxSamples samples each.
Buffers == UNION {[1..n -> SampleVals] : n \in 1..MaxSamples}

\* A sample of a returned buffer: the exact fraction num / den, in sample units
\* (num / den = 1 is the sample value 1.0).
Frac(n, d) == [num |-> n, den |-> d]

RECURSIVE AudioPeakFrom(_, _)
\* np.max(np.abs(audio)) over the samples from position i on.
AudioPeakFrom(audio, i) ==
    IF i = Len(audio) THEN Abs(audio[i])
    ELSE Max(Abs(audio[i]), AudioPeakFrom(audio, i + 1))

AudioPeak(audio) == AudioPeakFrom(audio, 1)

RECURSIVE PeakLoop(_, _, _)
\* The loop "for audio in list_of_arrays": max_peak after the buffers from i on.
PeakLoop(list, i, max_peak) ==
    IF i > Len(list) THEN max_peak
    ELSE LET audio_peak == AudioPeak(list[i])
         IN  PeakLoop(list, i + 1,
                      IF audio_peak > max_peak THEN audio_peak ELSE max_peak)

\* audio * gain with gain = 0.999 / max_peak (max_peak in units of 1/Unit).
ScaleAudio(audio, max_peak) ==
    [j \in DOMAIN audio |-> Frac(GainNum * audio[j], GainDen * max_peak)]

\* A buffer returned as it was given.
SameAudio(audio) == [j \in DOMAIN audio |-> Frac(audio[j], Unit)]

\* A variant whose test is "max_peak > 1": a batch peaking at exactly 1.0 is
\* returned as it is.
ClipGuardStrictTest(list) ==
    LET max_peak == PeakLoop(list, 1, Unit)
    IN  IF max_peak > Unit
        THEN [i \in DOMAIN list |-> ScaleAudio(list[i], max_peak)]
        ELSE [i \in DOMAIN list |-> SameAudio(list[i])]

\* A variant that scales each buffer by its own peak.
ClipGuardPerBuffer(list) ==
    [i \in DOMAIN list |-> ScaleAudio(list[i], Max(Unit, AudioPeak(list[i])))]

\* ensure_audio_doesnt_clip: max_peak starts at 1, so the test max_peak >= 1
\* is true for every batch and the else branch is never taken.
EnsureAudioDoesntClip(list) ==
    LET max_peak == PeakLoop(list, 1, Unit)
    IN  IF max_peak >= Unit
        THEN [i \in DOMAIN list |-> ScaleAudio(list[i], max_peak)]
        ELSE [i \in DOMAIN list |-> SameAudio(list[i])]

DropIdle ==
    /\ call = None
    /\ x_stft = None
    /\ x_drop = None
    /\ x_fft = None
    /\ idx = {}
    /\ sampled = FALSE
    /\ drop_pc = "idle"
    /\ returned = None

ComposeIdle ==
    /\ waves = None
    /\ others = None
    /\ before = None
    /\ last = None
    /\ anchor = None
    /\ summed = <<>>

ClipIdle ==
    /\ list_of_arrays = <<>>
    /\ new_list_of_arrays = None
    /\ clip_pc = "idle"

CliIdle ==
    /\ args = None
    /\ cli_pc = "idle"
    /\ step = 0
    /\ anchors = <<>>
    /\ guard_calls = 0
    /\ written = <<>>

InitClip ==
    /\ \E n \in 0..MaxBuffers : list_of_arrays \in [1..n -> Buffers]
    /\ new_list_of_arrays = None
    /\ clip_pc = "ready"
    /\ DropIdle
    /\ ComposeIdle
    /\ CliIdle

\* One call of ensure_audio_doesnt_clip on the batch.
ClipGuard ==
    /\ clip_pc = "ready"
    /\ new_list_of_arrays' = EnsureAudioDoesntClip(list_of_arrays)
    /\ clip_pc' = "done"
    /\ UNCHANGED <<list_of_arrays, dropVars, compVars, cliVars>>

NextClip == ClipGuard

SpecClip == InitClip /\ [][NextClip]_vars

(***************************************************************************)
(* Spectral operators: anchors.py, distorted_target and musical_noise.     *)
(* A spectrogram is indexed by <<frequency bin, time frame, channel>>,     *)
(* all from 0, as x_fft is.                                                *)
(***************************************************************************)
\* Mono and stereo targets.
ChannelCounts == {1, 2}

\* The one-sided spectrum of a num_points transform has num_points/2 + 1 bins.
NumBins == NumPoints \div 2 + 1

\* x_fft.shape for a call.
Shape(c) == <<NumBins, c.num_frames, c.channels>>

\* x_fft.size
Size(shape) == shape[1] * shape[2] * shape[3]

Cells(shape) == (0..shape[1] - 1) \X (0..shape[2] - 1) \X (0..shape[3] - 1)

\* The position of a cell in the flattened (row-major) array.
FlatIndex(cell, shape) == (cell[1] * shape[2] + cell[2]) * shape[3] + cell[3]

\* np.unravel_index(i, x_fft.shape): the (freq, time, channel) of flat index i.
UnravelIndex(i, shape) ==
    <<i \div (shape[2] * shape[3]), (i \div shape[3]) % shape[2], i % shape[3]>>

\* stft.process(target): every cell holds energy (a distinct non-zero value).
Stft(c) == [cell \in Cells(Shape(c)) |-> 1 + FlatIndex(cell, Shape(c))]

\* int(n * distortion_factor) for the factor df.p / df.q: Python's int()
\* truncates toward zero.
IntOfProduct(n, df) ==
    IF n * df.p >= 0 THEN (n * df.p) \div df.q ELSE -((-(n * df.p)) \div df.q)

\* n * distortion_factor rounded to the nearest integer, halves to even.
RoundOfProduct(n, df) ==
    LET twice == 2 * n * df.p
        lo == (n * df.p) \div df.q            \* floor
    IN  IF twice - 2 * lo * df.q < df.q THEN lo
        ELSE IF twice - 2 * lo * df.q > df.q THEN lo + 1
        ELSE IF lo % 2 = 0 THEN lo ELSE lo + 1

\* A variant that rounds the product to the nearest integer.
NumFramesRounded(n, df) == RoundOfProduct(n, df)

\* num_frames_to_remove = int(x_fft.num_frames * distortion_factor)
NumFramesToRemove(n, df) == IntOfProduct(n, df)

\* size = int(x_fft.size * distortion_factor)
NumBinsToRemove(n, df) == IntOfProduct(n, df)

\* np.random.choice(n, k, replace=False) raises for a negative k and for a k
\* larger than the population n.
ChoiceRaises(n, k) == k < 0 \/ k > n

\* What np.random.choice(n, k, replace=False) may return: any k distinct
\* indices of 0..n-1.
Choice(n, k) == {S \in SUBSET (0..n - 1) : Cardinality(S) = k}

\* x_fft[:, idx] = 0
ZeroFrames(x, frames) ==
    [cell \in DOMAIN x |-> IF cell[2] \in frames THEN 0 ELSE x[cell]]

\* A variant that zeroes the whole time frame of each chosen cell.
ZeroCellsWholeFrame(x, shape, flat) ==
    LET chosen == {UnravelIndex(i, shape) : i \in flat}
    IN  [cell \in DOMAIN x |->
            IF \E d \in chosen : d[2] = cell[2] THEN 0 ELSE x[cell]]

\* freq, time, channel = np.unravel_index(idx, x_fft.shape)
\* x_fft[freq, time, channel] = 0
ZeroCells(x, shape, flat) ==
    LET chosen == {UnravelIndex(i, shape) : i \in flat}
    IN  [cell \in DOMAIN x |-> IF cell \in chosen THEN 0 ELSE x[cell]]

\* nearest_bin(lowpass_cutoff, num_points, sample_rate): the bin nearest to the
\* cutoff, round(cutoff * num_points / sample_rate), halves to even.
NearestBin(hz, num_points, sample_rate) ==
    RoundOfProduct(hz, [p |-> num_points, q |-> sample_rate])

\* The first bin of the slice x_fft[cutoff:] (a negative start counts from the end).
SliceStart(cutoff, n) ==
    IF cutoff >= 0 THEN cutoff ELSE Max(0, n + cutoff)

\* A variant that keeps the bin at the cutoff index: x_fft[cutoff + 1:] = 0.
LowpassKeepsCutoffBin(x, lowpass_cutoff) ==
    IF lowpass_cutoff = None THEN x
    ELSE LET cutoff == NearestBin(The(lowpass_cutoff), NumPoints, SampleRate)
         IN  [cell \in DOMAIN x |->
                 IF cell[1] > SliceStart(cutoff, NumBins) THEN 0 ELSE x[cell]]

\* A variant that takes None for a cutoff of 0 Hz.
LowpassNoneAsZeroHz(x, lowpass_cutoff) ==
    LET cutoff == IF lowpass_cutoff = None THEN 0
                  ELSE NearestBin(The(lowpass_cutoff), NumPoints, SampleRate)
    IN  [cell \in DOMAIN x |->
            IF cell[1] >= SliceStart(cutoff, NumBins) THEN 0 ELSE x[cell]]

\* if lowpass_cutoff is not None: x_fft[cutoff:] = 0
Lowpass(x, lowpass_cutoff) ==
    IF lowpass_cutoff = None THEN x
    ELSE LET cutoff == NearestBin(The(lowpass_cutoff), NumPoints, SampleRate)
         IN  [cell \in DOMAIN x |->
                 IF cell[1] >= SliceStart(cutoff, NumBins) THEN 0 ELSE x[cell]]

\* signal.loudness = -23
RefLoudness == -23

\* The loudness of the caller's target and of the caller's other sources.
TargetLoudness == {-20, RefLoudness}
OtherLoudness == {-14}

\* The loudness a new signal (an inverse transform's output, a sum) may have.
Measured == {-30, -17}

\* The distortion factors tried: None, and p / DfDen from -2/DfDen to 1 + 2/DfDen.
DistortionFactors == {None} \cup {Some(f) : f \in [p : -2..DfDen + 2, q : {DfDen}]}

\* The cutoffs tried: None, and 0..MaxCutoff Hz.
Cutoffs == {None} \cup {Some(hz) : hz \in 0..MaxCutoff}

Calls ==
    [fn : {"distorted_target", "musical_noise"},
     num_frames : 1..MaxFrames,
     channels : ChannelCounts,
     distortion_factor : DistortionFactors,
     lowpass_cutoff : Cutoffs,
     target_loudness : TargetLoudness]

\* stft and istft step by num_points // 2 samples.
Hop == NumPoints \div 2

\* target.num_frames: the samples of the target whose spectrogram has
\* c.num_frames time frames.
TargetSamples(c) == c.num_frames * Hop

\* istft.process(x): a new Wave, the inverse transform of x; it may be longer
\* than the target by the padding of the last frame, and measures loudness l.
Istft(x, length, l) == [istft_of |-> x, num_frames |-> length, loudness |-> l]

\* wave[:n]
Truncate(wave, n) ==
    [wave EXCEPT !.num_frames = IF n < wave.num_frames THEN n ELSE wave.num_frames]

\* distorted_target_anchor = istft.process(x_fft)[:target.num_frames]
\* distorted_target_anchor.loudness = target.loudness
DistortedTargetAnchor(x, c, pad, l) ==
    [Truncate(Istft(x, TargetSamples(c) + pad, l), TargetSamples(c))
        EXCEPT !.loudness = c.target_loudness]

\* artefacts = istft.process(x_fft); return artefacts[:target.num_frames]
MusicalNoiseSignal(x, c, pad, l) ==
    Truncate(Istft(x, TargetSamples(c) + pad, l), TargetSamples(c))

InitDrop ==
    /\ call \in Calls
    /\ x_stft = Stft(call)
    /\ x_drop = None
    /\ x_fft = None
    /\ idx = {}
    /\ sampled = FALSE
    /\ drop_pc = "ready"
    /\ returned = None
    /\ ClipIdle
    /\ ComposeIdle
    /\ CliIdle

\* The call ends in an exception: nothing is returned.
Raise(didSample) ==
    /\ drop_pc' = "error"
    /\ sampled' = didSample
    /\ idx' = {}
    /\ x_drop' = None
    /\ x_fft' = None

\* The call returns: the spectrogram after the dropout, then after the lowpass,
\* goes to istft.process.
Return(didSample, chosen, dropped) ==
    /\ drop_pc' = "ok"
    /\ sampled' = didSample
    /\ idx' = chosen
    /\ x_drop' = dropped
    /\ x_fft' = Lowpass(dropped, call.lowpass_cutoff)

\* distorted_target(target, distortion_factor, lowpass_cutoff)
DistortedTarget ==
    /\ drop_pc = "ready"
    /\ call.fn = "distorted_target"
    /\ LET df == call.distortion_factor
           n == call.num_frames
       IN  IF df = None
           THEN Return(FALSE, {}, x_stft)
           ELSE IF ChoiceRaises(n, NumFramesToRemove(n, The(df)))
           THEN Raise(FALSE)
           ELSE \E chosen \in Choice(n, NumFramesToRemove(n, The(df))) :
                    Return(TRUE, chosen, ZeroFrames(x_stft, chosen))
    /\ \E pad \in 0..Hop, l \in Measured :
          returned' = IF drop_pc' = "ok"
                      THEN Some(DistortedTargetAnchor(x_fft', call, pad, l))
                      ELSE None
    /\ UNCHANGED <<call, x_stft, clipVars, compVars, cliVars>>

\* musical_noise(target, distortion_factor, lowpass_cutoff)
MusicalNoise ==
    /\ drop_pc = "ready"
    /\ call.fn = "musical_noise"
    /\ LET df == call.distortion_factor
           size == Size(Shape(call))
       IN  IF df = None
           THEN Raise(FALSE)      \* x_fft.size * None is a TypeError
           ELSE IF ChoiceRaises(size, NumBinsToRemove(size, The(df)))
           THEN Raise(FALSE)
           ELSE \E chosen \in Choice(size, NumBinsToRemove(size, The(df))) :
                    Return(TRUE, chosen, ZeroCells(x_stft, Shape(call), chosen))
    /\ \E pad \in 0..Hop, l \in Measured :
          returned' = IF drop_pc' = "ok"
                      THEN Some(MusicalNoiseSignal(x_fft', call, pad, l))
                      ELSE None
    /\ UNCHANGED <<call, x_stft, clipVars, compVars, cliVars>>

NextDrop == DistortedTarget \/ MusicalNoise

SpecDrop == InitDrop /\ [][NextDrop]_vars


(***************************************************************************)
(* Composers: anchors.py on Wave objects.  A Wave is an object of a heap   *)
(* (a function from object ids to records), so that two names of one       *)
(* object see each other's changes.  Of a Wave the model keeps its channel *)
(* count, its sample rate and its loudness; "w.loudness = L" rescales the  *)
(* samples of w in place, so the samples of w are the ones it had exactly  *)
(* when its loudness is the one it had.  The spectral content of a         *)
(* distorted target or of musical noise (SpecDrop) shows here only as the  *)
(* loudness the inverse transform's output happens to have.                *)
(***************************************************************************)
\* relative_loudness: a number, or None (interference accepts None).
RelativeLoudness == {Some(-3), Some(0), Some(3)}

SampleRates == {44100, 48000}

Wave(ch, sr, l) == [channels |-> ch, sample_rate |-> sr, loudness |-> l]

\* Object ids: the caller's target and other sources, and the accompaniment a
\* call builds for itself.
TargetId == <<"target", 0>>
OtherId(i) == <<"other", i>>
AccId == <<"accompaniment", 0>>

\* The heap with one more object.
Extend(h, id, w) == [x \in DOMAIN h \cup {id} |-> IF x = id THEN w ELSE h[x]]

\* w.loudness = l, on the object itself.
SetLoudness(h, id, l) == [h EXCEPT ![id].loudness = l]

\* a + b on arrays of shape (num_samples, channels): a mono operand broadcasts
\* against a stereo one, the sample rates are not compared, and the result is
\* a new object whose loudness is whatever the sum measures.
Add(a, b, l) == Wave(Max(a.channels, b.channels), a.sample_rate, l)

RECURSIVE SumFrom(_, _, _, _)
\* sum(signals): 0 + signals[1] + signals[2] + ...
SumFrom(acc, signals, i, l) ==
    IF i > Len(signals) THEN acc
    ELSE SumFrom(Add(acc, signals[i], l), signals, i + 1, l)

Sum(signals, l) ==
    SumFrom([signals[1] EXCEPT !.loudness = l], signals, 2, l)

\* What a call has done: the heap it leaves, the Wave it returns and the sums
\* it computed (the operands of each, as they were when summed).
Done(h, w, sums) == [heap |-> h, anchor |-> w, summed |-> sums]

\* utilities.target_accompaniment(target, others): the accompaniment is the
\* sum of a list of others (a new object), or the single other itself.
TargetAccompaniment(h, oth, l) ==
    IF oth.kind = "list"
    THEN LET signals == [i \in DOMAIN oth.ids |-> h[oth.ids[i]]]
         IN  [heap |-> Extend(h, AccId, Sum(signals, l)),
              accompaniment |-> AccId,
              summed |-> <<signals>>]
    ELSE [heap |-> h, accompaniment |-> oth.ids[1], summed |-> <<>>]

\* distorted_target(target): istft.process(x_fft)[:target.num_frames], a new
\* Wave measuring l, then distorted_target_anchor.loudness = target.loudness.
DistortedTargetWave(target, l) ==
    [Wave(target.channels, target.sample_rate, l)
        EXCEPT !.loudness = target.loudness]

\* musical_noise(target): istft.process(x_fft)[:target.num_frames]; its
\* loudness is left as it comes out.
MusicalNoiseWave(target, l) == Wave(target.channels, target.sample_rate, l)

\* distorted_target as a call on the heap.
DistortedTargetCall(h, m) ==
    Done(h, DistortedTargetWave(h[TargetId], m[1]), <<>>)

\* artefacts(target)
Artefacts(h, m) ==
    LET target == h[TargetId]
        noise == [MusicalNoiseWave(target, m[2]) EXCEPT !.loudness = target.loudness]
        signals == <<noise, target>>
        artefacts_anchor == [Add(noise, target, m[4]) EXCEPT !.loudness = target.loudness]
    IN  Done(h, artefacts_anchor, <<signals>>)

\* A variant that leaves the sum at the loudness it measures.
InterferenceNoRematch(h, oth, rel, m) ==
    LET ta == TargetAccompaniment(h, oth, m[3])
        acc == ta.accompaniment
        h1 == IF rel # None
              THEN SetLoudness(ta.heap, acc, ta.heap[TargetId].loudness + The(rel))
              ELSE ta.heap
        signals == <<h1[TargetId], h1[acc]>>
    IN  Done(h1, Add(h1[TargetId], h1[acc], m[4]), ta.summed \o <<signals>>)

\* interference(target, others, relative_loudness)
Interference(h, oth, rel, m) ==
    LET ta == TargetAccompaniment(h, oth, m[3])
        acc == ta.accompaniment
        h1 == IF rel # None
              THEN SetLoudness(ta.heap, acc, ta.heap[TargetId].loudness + The(rel))
              ELSE ta.heap
        signals == <<h1[TargetId], h1[acc]>>
        interference_anchor ==
            [Add(h1[TargetId], h1[acc], m[4]) EXCEPT !.loudness = h1[TargetId].loudness]
    IN  Done(h1, interference_anchor, ta.summed \o <<signals>>)

\* overall_quality(target, others, relative_loudness=rel)
\* A variant that puts the offset on signals_to_sum[1], the musical noise.
OverallQualityOffsetOnNoise(h, oth, rel, m) ==
    LET ta == TargetAccompaniment(h, oth, m[3])
        acc == ta.accompaniment
        dt == DistortedTargetWave(ta.heap[TargetId], m[1])
        mn == MusicalNoiseWave(ta.heap[TargetId], m[2])
        dt1 == [dt EXCEPT !.loudness = RefLoudness]
        mn1 == [mn EXCEPT !.loudness = RefLoudness + The(rel)]
        h1 == SetLoudness(ta.heap, acc, RefLoudness)
        signals == <<dt1, mn1, h1[acc]>>
        overall_quality_anchor ==
            [Sum(signals, m[4]) EXCEPT !.loudness = h1[TargetId].loudness]
    IN  Done(h1, overall_quality_anchor, ta.summed \o <<signals>>)

\* overall_quality(target, others, relative_loudness)
OverallQuality(h, oth, rel, m) ==
    LET ta == TargetAccompaniment(h, oth, m[3])
        acc == ta.accompaniment
        dt == DistortedTargetWave(ta.heap[TargetId], m[1])
        mn == MusicalNoiseWave(ta.heap[TargetId], m[2])
        \* for signal in signals_to_sum: signal.loudness = -23
        dt1 == [dt EXCEPT !.loudness = RefLoudness]
        mn1 == [mn EXCEPT !.loudness = RefLoudness]
        h1 == SetLoudness(ta.heap, acc, RefLoudness)
        \* signals_to_sum[2].loudness = -23 + relative_loudness
        h2 == SetLoudness(h1, acc, RefLoudness + The(rel))
        signals == <<dt1, mn1, h2[acc]>>
        overall_quality_anchor ==
            [Sum(signals, m[4]) EXCEPT !.loudness = h2[TargetId].loudness]
    IN  Done(h2, overall_quality_anchor, ta.summed \o <<signals>>)

\* target_sound_quality(target)
TargetSoundQuality(h, m) ==
    LET dt == DistortedTargetWave(h[TargetId], m[1])
        mn == MusicalNoiseWave(h[TargetId], m[2])
        dt1 == [dt EXCEPT !.loudness = RefLoudness]
        mn1 == [mn EXCEPT !.loudness = RefLoudness]
        signals == <<dt1, mn1>>
        target_sound_quality_anchor ==
            [Sum(signals, m[4]) EXCEPT !.loudness = h[TargetId].loudness]
    IN  Done(h, target_sound_quality_anchor, <<signals>>)

\* The other sources a caller holds: 1..MaxOthers Waves.
OtherWaves == [channels : ChannelCounts, sample_rate : SampleRates, loudness : OtherLoudness]

\* The caller's heap with the target t and the other sources ws.
CallerHeap(t, ws) ==
    [id \in {TargetId} \cup {OtherId(i) : i \in DOMAIN ws} |->
        IF id = TargetId THEN t ELSE ws[id[2]]]

\* The caller's objects: the target and the other sources, never one object
\* under both names.  others is the list of all the other sources, or (with
\* one other source) that Wave itself.
InitCompose ==
    /\ \E t \in [channels : ChannelCounts, sample_rate : SampleRates, loudness : TargetLoudness],
          n \in 1..MaxOthers :
          \E ws \in [1..n -> OtherWaves] :
              /\ waves = CallerHeap(t, ws)
              /\ \/ others = [kind |-> "list", ids |-> [i \in 1..n |-> OtherId(i)]]
                 \/ n = 1 /\ others = [kind |-> "single", ids |-> <<OtherId(1)>>]
    /\ before = None
    /\ last = None
    /\ anchor = None
    /\ summed = <<>>
    /\ ClipIdle
    /\ DropIdle
    /\ CliIdle

\* The measurements of the new signals of one call: m[1] the distorted target,
\* m[2] the musical noise, m[3] the summed others, m[4] the final sum.  Every
\* one of them is overwritten or unused but the summed others' (read by
\* interference when relative_loudness is None), so one value serves all four.
Measurements == {[i \in 1..4 |-> l] : l \in Measured}

\* The call returns: the caller keeps its own objects, as the call left them.
Finish(fn, rel, done) ==
    /\ before' = waves
    /\ last' = [fn |-> fn, relative_loudness |-> rel]
    /\ waves' = [id \in DOMAIN waves |-> done.heap[id]]
    /\ anchor' = Some(done.anchor)
    /\ summed' = done.summed
    /\ UNCHANGED <<others, clipVars, dropVars, cliVars>>

CallDistortedTarget ==
    /\ waves # None
    /\ \E m \in Measurements : Finish("distorted_target", None, DistortedTargetCall(waves, m))

CallArtefacts ==
    /\ waves # None
    /\ \E m \in Measurements : Finish("artefacts", None, Artefacts(waves, m))

CallInterference ==
    /\ waves # None
    /\ \E m \in Measurements, rel \in RelativeLoudness \cup {None} :
          Finish("interference", rel, Interference(waves, others, rel, m))

CallOverallQuality ==
    /\ waves # None
    /\ \E m \in Measurements, rel \in RelativeLoudness :
          Finish("overall_quality", rel, OverallQuality(waves, others, rel, m))

CallTargetSoundQuality ==
    /\ waves # None
    /\ \E m \in Measurements : Finish("target_sound_quality", None, TargetSoundQuality(waves, m))

NextCompose ==
    \/ CallDistortedTarget
    \/ CallArtefacts
    \/ CallInterference
    \/ CallOverallQuality
    \/ CallTargetSoundQuality

SpecCompose == InitCompose /\ [][NextCompose]_vars

(***************************************************************************)
(* Command line: cli.py, ssanchors.  One run, step by step: the five       *)
(* "if args.<type> or args.all" blocks in their order, the single call of  *)
(* ensure_audio_doesnt_clip, then the loop that writes the files.  The     *)
(* call of the clip guard uses the clip guard's own variables.             *)
(***************************************************************************)
\* The anchor types in the order of their blocks in cli.py.
GenerationOrder ==
    <<"distorted_target", "artefacts", "target_sound_quality",
      "interference", "overall_quality">>

AnchorTypes == {GenerationOrder[i] : i \in DOMAIN GenerationOrder}

\* The store_true flags of the parser.
Flags == AnchorTypes \cup {"all"}

\* --others: absent; given, with sources the composers can sum with the
\* target; or given, with sources of a length numpy cannot add to the
\* target's, so that a composer taking others raises.
OthersGiven == {"absent", "fit", "unfit"}

\* os.path.splitext(args.target): the target path as its root and extension.
TargetPaths == {[root |-> "vocals", ext |-> ".wav"]}

\* args = parser.parse_args()
ArgSets == [flags : SUBSET Flags, others : OthersGiven, target : TargetPaths]

\* if args.<type> or args.all
Requested(a, type) == type \in a.flags \/ "all" \in a.flags

\* The blocks whose composer takes others: they test "if others".
NeedsOthers(type) == type \in {"interference", "overall_quality"}

\* The samples of a generated anchor: a quiet buffer or one that clips.
CliAudio == {<<1>>, <<-(Unit + 1)>>}

\* anchors.keys() and anchors.values(), in insertion order.
Keys(dict) == [i \in DOMAIN dict |-> dict[i].key]
Values(dict) == [i \in DOMAIN dict |-> dict[i].audio]

\* A variant that pairs the values with the keys in reverse order.
ZipKeysReversed(keys, values) ==
    [i \in 1..(IF Len(keys) < Len(values) THEN Len(keys) ELSE Len(values)) |->
        <<keys[Len(keys) + 1 - i], values[i]>>]

\* zip(keys, anchors)
Zip(keys, values) ==
    [i \in 1..(IF Len(keys) < Len(values) THEN Len(keys) ELSE Len(values)) |->
        <<keys[i], values[i]>>]

\* '{}_{}_anchor{}'.format(filename, key, file_extension)
FileName(target, key) == <<target.root, "_", key, "_anchor", target.ext>>

InitCli ==
    /\ args \in ArgSets
    /\ cli_pc = "generate"
    /\ step = 1
    /\ anchors = <<>>
    /\ guard_calls = 0
    /\ written = <<>>
    /\ ClipIdle
    /\ DropIdle
    /\ ComposeIdle

\* The run moves on to the next block, or past the last one to the clip guard.
NextBlock ==
    /\ step' = step + 1
    /\ cli_pc' = IF step = Len(GenerationOrder) THEN "guard" ELSE "generate"

\* A block whose anchor is requested and can be built:
\* anchors['<type>'] = <type>(target[, others])
GenerateAnchor ==
    /\ cli_pc = "generate"
    /\ LET type == GenerationOrder[step]
       IN  /\ Requested(args, type)
           /\ NeedsOthers(type) => args.others = "fit"
           /\ \E audio \in CliAudio :
                 anchors' = Append(anchors, [key |-> type, audio |-> audio])
    /\ NextBlock
    /\ UNCHANGED <<args, guard_calls, written, clipVars, dropVars, compVars>>

\* A block that is not requested, or one whose composer takes others when
\* none were given (it prints a message): no anchor is added.
SkipAnchor ==
    /\ cli_pc = "generate"
    /\ LET type == GenerationOrder[step]
       IN  \/ ~Requested(args, type)
           \/ NeedsOthers(type) /\ args.others = "absent"
    /\ NextBlock
    /\ UNCHANGED <<args, anchors, guard_calls, written, clipVars, dropVars, compVars>>

\* A requested composer raises on others it cannot sum: the run ends there.
RaiseInComposer ==
    /\ cli_pc = "generate"
    /\ LET type == GenerationOrder[step]
       IN  /\ Requested(args, type)
           /\ NeedsOthers(type)
           /\ args.others = "unfit"
    /\ cli_pc' = "raised"
    /\ UNCHANGED <<args, step, anchors, guard_calls, written, clipVars, dropVars, compVars>>

\* keys, anchors = anchors.keys(), anchors.values()
\* anchors = ensure_audio_doesnt_clip(anchors)
CallClipGuard ==
    /\ cli_pc = "guard"
    /\ list_of_arrays' = Values(anchors)
    /\ new_list_of_arrays' = EnsureAudioDoesntClip(Values(anchors))
    /\ clip_pc' = "done"
    /\ guard_calls' = guard_calls + 1
    /\ cli_pc' = "write"
    /\ UNCHANGED <<args, step, anchors, written, dropVars, compVars>>

\* One turn of "for key, anchor in zip(keys, anchors): anchor.write(...)".
WriteAnchor ==
    /\ cli_pc = "write"
    /\ LET pairs == Zip(Keys(anchors), new_list_of_arrays)
           i == Len(written) + 1
       IN  /\ i <= Len(pairs)
           /\ written' = Append(written,
                                [name |-> FileName(args.target, pairs[i][1]),
                                 audio |-> pairs[i][2]])
    /\ UNCHANGED <<args, cli_pc, step, anchors, guard_calls, clipVars, dropVars, compVars>>

NextCli ==
    \/ GenerateAnchor
    \/ SkipAnchor
    \/ RaiseInComposer
    \/ CallClipGuard
    \/ WriteAnchor

SpecCli == InitCli /\ [][NextCli]_vars


(***************************************************************************)
(* Claims about the spectral operators, checked under SpecDrop.            *)
(***************************************************************************)
\* The call has been made with the named function.
Called(fn) == drop_pc # "ready" /\ call.fn = fn

\* The distortion factor is a number in [0, 1).
FactorInRange(df) == df # None /\ The(df).p >= 0 /\ The(df).p < The(df).q

\* The distortion factor is a number outside [0, 1).
FactorOutOfRange(df) == df # None /\ (The(df).p < 0 \/ The(df).p >= The(df).q)

\* The time frames of x that are zero in every bin and channel.
ZeroedFrames(x) == {t \in 0..call.num_frames - 1 :
                       \A cell \in DOMAIN x : cell[2] = t => x[cell] = 0}

\* The cells of x that are zero.
ZeroedCells(x) == {cell \in DOMAIN x : x[cell] = 0}

\* x_fft has exactly k time frames zeroed, in every bin and channel, and every
\* cell of every other frame as the forward transform gave it.
FramesDropped(k) ==
    /\ drop_pc = "ok"
    /\ Cardinality(ZeroedFrames(x_fft)) = k
    /\ \A cell \in DOMAIN x_fft :
          cell[2] \notin ZeroedFrames(x_fft) => x_fft[cell] = x_stft[cell]

\* x_fft has exactly k cells zeroed and every other cell as the forward
\* transform gave it.
CellsDropped(k) ==
    /\ drop_pc = "ok"
    /\ Cardinality(ZeroedCells(x_fft)) = k
    /\ \A cell \in DOMAIN x_fft :
          cell \notin ZeroedCells(x_fft) => x_fft[cell] = x_stft[cell]

\* C4 (as claimed): with a factor in [0,1) and no lowpass, distorted_target
\* zeroes exactly round(num_frames * distortion_factor) distinct time frames.
C4_FrameCountRounded ==
    (/\ Called("distorted_target")
     /\ FactorInRange(call.distortion_factor)
     /\ call.lowpass_cutoff = None) =>
        FramesDropped(RoundOfProduct(call.num_frames, The(call.distortion_factor)))

\* C4 (amended): with a factor in [0,1) and no lowpass, distorted_target zeroes
\* exactly int(num_frames * distortion_factor) distinct time frames (the
\* product truncated toward zero), each in every bin and channel, and leaves
\* every cell of every other frame as it was.
C4_FrameCountTruncated ==
    (/\ Called("distorted_target")
     /\ FactorInRange(call.distortion_factor)
     /\ call.lowpass_cutoff = None) =>
        /\ FramesDropped(IntOfProduct(call.num_frames, The(call.distortion_factor)))
        /\ ZeroedFrames(x_fft) = idx

\* C4's case: a stereo call whose product num_frames * distortion_factor is no
\* integer has dropped a frame and kept another.
C4_Witness ==
    /\ Called("distorted_target")
    /\ drop_pc = "ok"
    /\ call.lowpass_cutoff = None
    /\ FactorInRange(call.distortion_factor)
    /\ call.channels = 2
    /\ (call.num_frames * The(call.distortion_factor).p) % The(call.distortion_factor).q # 0
    /\ idx # {}
    /\ Cardinality(idx) < call.num_frames

\* C5 (as claimed): with a factor in [0,1) and no lowpass, musical_noise zeroes
\* exactly round(total_bins * distortion_factor) distinct cells.
C5_BinCountRounded ==
    (/\ Called("musical_noise")
     /\ FactorInRange(call.distortion_factor)
     /\ call.lowpass_cutoff = None) =>
        CellsDropped(RoundOfProduct(Size(Shape(call)), The(call.distortion_factor)))

\* C5 (amended): with a factor in [0,1) and no lowpass, musical_noise zeroes
\* exactly int(total_bins * distortion_factor) distinct (frequency, time,
\* channel) cells (the product truncated toward zero), drawn from the whole
\* spectrogram volume, and leaves every other cell as it was.
C5_BinCountTruncated ==
    (/\ Called("musical_noise")
     /\ FactorInRange(call.distortion_factor)
     /\ call.lowpass_cutoff = None) =>
        /\ CellsDropped(IntOfProduct(Size(Shape(call)), The(call.distortion_factor)))
        /\ idx \subseteq 0..Size(Shape(call)) - 1
        /\ ZeroedCells(x_fft) = {UnravelIndex(i, Shape(call)) : i \in idx}
        /\ \A cell \in ZeroedCells(x_fft) : FlatIndex(cell, Shape(call)) \in idx

\* C5's case: a call on a stereo spectrogram of several frames, whose product
\* total_bins * distortion_factor is no integer, has zeroed cells in two
\* different frames, bins and channels.
C5_Witness ==
    /\ Called("musical_noise")
    /\ drop_pc = "ok"
    /\ call.lowpass_cutoff = None
    /\ FactorInRange(call.distortion_factor)
    /\ call.channels = 2
    /\ (Size(Shape(call)) * The(call.distortion_factor).p) % The(call.distortion_factor).q # 0
    /\ \E c, d \in ZeroedCells(x_fft) : c[1] # d[1] /\ c[2] # d[2] /\ c[3] # d[3]

\* C6: in distorted_target and in musical_noise, whatever the dropout did: with
\* a cutoff given, every cell at or above the cutoff's nearest bin is zero in
\* every frame and channel after the mask and no cell below it has changed;
\* with cutoff None the mask changes nothing.
C6_LowpassMask ==
    drop_pc = "ok" =>
        /\ DOMAIN x_fft = DOMAIN x_drop
        /\ IF call.lowpass_cutoff = None
           THEN x_fft = x_drop
           ELSE \A cell \in DOMAIN x_fft :
                   IF cell[1] >= NearestBin(The(call.lowpass_cutoff), NumPoints, SampleRate)
                   THEN x_fft[cell] = 0
                   ELSE x_fft[cell] = x_drop[cell]

\* C6's case: the mask has run after a dropout, with a cutoff that falls on a
\* bin inside the spectrogram and not on bin 0, and a cell below it kept energy.
C6_Witness ==
    /\ drop_pc = "ok"
    /\ call.lowpass_cutoff # None
    /\ NearestBin(The(call.lowpass_cutoff), NumPoints, SampleRate) \in 1..NumBins - 1
    /\ idx # {}
    /\ \E cell \in DOMAIN x_fft : x_fft[cell] # 0

\* C7 (as claimed): a distortion factor outside [0,1) makes distorted_target and
\* musical_noise end in an error, with no index sampled and no anchor returned.
C7_InvalidFactorRejected ==
    (drop_pc # "ready" /\ FactorOutOfRange(call.distortion_factor)) =>
        drop_pc = "error" /\ ~sampled


\* C11: with distortion_factor None and lowpass_cutoff None, distorted_target
\* selects no frame and zeroes no cell: the spectrogram handed to the inverse
\* transform is the forward transform of the target, and the anchor returned is
\* its inverse transform, cut to the target's length and set to the target's
\* loudness.
C11_NoOpDistortion ==
    (/\ Called("distorted_target")
     /\ call.distortion_factor = None
     /\ call.lowpass_cutoff = None) =>
        /\ drop_pc = "ok"
        /\ ~sampled
        /\ idx = {}
        /\ x_drop = x_stft
        /\ x_fft = x_stft
        /\ ZeroedCells(x_fft) = {}
        /\ returned = Some([istft_of |-> x_stft,
                            num_frames |-> TargetSamples(call),
                            loudness |-> call.target_loudness])

\* C11's case: distorted_target has returned for a stereo target of several
\* frames, with both operators disabled.
C11_Witness ==
    /\ Called("distorted_target")
    /\ drop_pc = "ok"
    /\ call.distortion_factor = None
    /\ call.lowpass_cutoff = None
    /\ call.channels = 2
    /\ call.num_frames > 1
    /\ call.target_loudness # RefLoudness
    /\ returned # None

(***************************************************************************)
(* Claims about the composers, checked under SpecCompose.                  *)
(***************************************************************************)
\* A call of one of the named composers has returned.
Returned(fns) == last # None /\ last.fn \in fns

\* Some other source differs from the target in channel count or sample rate.
ShapeMismatch(h) ==
    \E id \in DOMAIN h \ {TargetId} :
        \/ h[id].channels # h[TargetId].channels
        \/ h[id].sample_rate # h[TargetId].sample_rate

\* C8: for each of the five composers, the returned anchor has the loudness the
\* target had when the call started, and the call has left the target's own
\* loudness as it was.
C8_LoudnessMatch ==
    Returned({"distorted_target", "artefacts", "interference",
              "overall_quality", "target_sound_quality"}) =>
        /\ anchor # None
        /\ The(anchor).loudness = before[TargetId].loudness
        /\ waves[TargetId].loudness = before[TargetId].loudness

\* C8's case: overall_quality has returned for a target that is not at -23,
\* with a relative loudness other than 0 and the accompaniment given as a
\* single Wave, which the call rescaled on the way.
C8_Witness ==
    /\ Returned({"overall_quality"})
    /\ others.kind = "single"
    /\ last.relative_loudness = Some(3)
    /\ before[TargetId].loudness # RefLoudness
    /\ waves[OtherId(1)].loudness # before[OtherId(1)].loudness
    /\ The(anchor).loudness = before[TargetId].loudness

\* C9 (as claimed): after a call of interference or overall_quality the target
\* and every Wave passed as others are as they were before the call, for
\* others a list and for others a single Wave.
C9_InputsUntouched ==
    Returned({"interference", "overall_quality"}) => waves = before

\* C10 (as claimed): when the target and an other source differ in channel
\* count or sample rate, interference and overall_quality end in an error
\* before anything is summed and return no anchor.
C10_MismatchRejected ==
    (Returned({"interference", "overall_quality"}) /\ ShapeMismatch(before)) =>
        anchor = None /\ summed = <<>>


\* The operands of the last sum the call computed, as they were when summed.
LastSummed == summed[Len(summed)]

\* C12: when overall_quality sums its three components, the distorted target
\* and the musical noise have loudness -23 and the accompaniment has loudness
\* -23 + relative_loudness, for others a list and for others a single Wave;
\* when target_sound_quality sums its two components, both have loudness -23.
C12_LoudnessAtSummation ==
    /\ Returned({"overall_quality"}) =>
          /\ summed # <<>>
          /\ Len(LastSummed) = 3
          /\ LastSummed[1].loudness = RefLoudness
          /\ LastSummed[2].loudness = RefLoudness
          /\ LastSummed[3].loudness = RefLoudness + The(last.relative_loudness)
    /\ Returned({"target_sound_quality"}) =>
          /\ Len(summed) = 1
          /\ Len(LastSummed) = 2
          /\ LastSummed[1].loudness = RefLoudness
          /\ LastSummed[2].loudness = RefLoudness

\* C12's case: overall_quality has summed its components for a list of two
\* other sources and a relative loudness other than 0, the target itself not
\* being at -23.
C12_Witness ==
    /\ Returned({"overall_quality"})
    /\ others.kind = "list"
    /\ Len(others.ids) = 2
    /\ last.relative_loudness = Some(-3)
    /\ before[TargetId].loudness # RefLoudness
    /\ Len(summed) = 2
    /\ LastSummed[3].loudness = RefLoudness - 3

(***************************************************************************)
(* Claims about the clip guard, checked under SpecClip.                    *)
(***************************************************************************)
\* The positions of the samples of a batch.
SamplePos(list) == {p \in (DOMAIN list) \X (1..MaxSamples) : p[2] \in DOMAIN list[p[1]]}

\* peak = max(|sample|) over all the buffers of the batch (0 for an empty one),
\* stated on the set of samples, not by the loop.
OverallPeak(list) ==
    LET mags == {Abs(list[p[1]][p[2]]) : p \in SamplePos(list)}
    IN  IF mags = {} THEN 0 ELSE CHOOSE m \in mags : \A n \in mags : n <= m

\* The returned list has the buffers of the batch, in number, order and length.
SameLayout(list, new) ==
    /\ DOMAIN new = DOMAIN list
    /\ \A i \in DOMAIN list : DOMAIN new[i] = DOMAIN list[i]

\* C1 (as claimed): a batch whose overall peak is strictly below 1.0 is returned
\* unchanged: every returned sample equals the sample given.
C1_IdentityBelowOne ==
    (clip_pc = "done" /\ OverallPeak(list_of_arrays) < Unit) =>
        /\ SameLayout(list_of_arrays, new_list_of_arrays)
        /\ \A p \in SamplePos(list_of_arrays) :
              LET out == new_list_of_arrays[p[1]][p[2]]
              IN  out.num * Unit = list_of_arrays[p[1]][p[2]] * out.den

\* C2: after ensure_audio_doesnt_clip every sample of every returned buffer
\* has magnitude at most 0.999, whatever the batch (the empty batch included).
C2_ClipBound ==
    clip_pc = "done" =>
        /\ SameLayout(list_of_arrays, new_list_of_arrays)
        /\ \A p \in SamplePos(list_of_arrays) :
              LET out == new_list_of_arrays[p[1]][p[2]]
              IN  /\ out.den > 0
                  /\ Abs(out.num) * GainDen <= GainNum * out.den

\* C2's case: a batch of two buffers that peaks above 1.0 has been processed and
\* a returned sample sits exactly at 0.999.
C2_Witness ==
    /\ clip_pc = "done"
    /\ Len(list_of_arrays) = 2
    /\ OverallPeak(list_of_arrays) > Unit
    /\ \E p \in SamplePos(list_of_arrays) :
          LET out == new_list_of_arrays[p[1]][p[2]]
          IN  Abs(out.num) * GainDen = GainNum * out.den

\* C3: when the peak over the whole batch is >= 1.0, every returned sample is
\* the given sample times the one gain 0.999 / peak, peak being the maximum
\* over all buffers; so the ratio of any two samples of any two buffers is kept,
\* and the buffers keep their number and order.
C3_UniformGain ==
    (clip_pc = "done" /\ OverallPeak(list_of_arrays) >= Unit) =>
        LET peak == OverallPeak(list_of_arrays)
            new == new_list_of_arrays
        IN  /\ SameLayout(list_of_arrays, new)
            /\ \A p \in SamplePos(list_of_arrays) :
                  \* out = sample * 0.999 / peak, in sample units
                  new[p[1]][p[2]].num * GainDen * peak
                      = GainNum * list_of_arrays[p[1]][p[2]] * new[p[1]][p[2]].den
            /\ \A p, q \in SamplePos(list_of_arrays) :
                  \* out_p / out_q = in_p / in_q, cross-multiplied
                  new[p[1]][p[2]].num * new[q[1]][q[2]].den * list_of_arrays[q[1]][q[2]]
                      = new[q[1]][q[2]].num * new[p[1]][p[2]].den * list_of_arrays[p[1]][p[2]]

\* C3's case: two buffers with different peaks, the louder one at or above 1.0
\* and the quieter one not silent, have been processed.
C3_Witness ==
    /\ clip_pc = "done"
    /\ Len(list_of_arrays) = 2
    /\ AudioPeak(list_of_arrays[1]) >= Unit
    /\ AudioPeak(list_of_arrays[2]) > 0
    /\ AudioPeak(list_of_arrays[2]) < AudioPeak(list_of_arrays[1])

(***************************************************************************)
(* Claims about a run of the command, checked under SpecCli.               *)
(***************************************************************************)
\* The anchor types a run is asked for and can build, in generation order: the
\* requested ones, less those that take others when none were given.
Buildable(a) ==
    SelectSeq(GenerationOrder,
              LAMBDA type : /\ Requested(a, type)
                            /\ NeedsOthers(type) => a.others # "absent")

\* C13: in a run of ssanchors, for every combination of flags and with or
\* without others, the clip guard is called at most once and never before the
\* generation is over; nothing is written before it; once the run is past the
\* generation the guard has been called exactly once, on the batch of every
\* requested anchor that can be built, in generation order; and every file
\* written carries the name of the anchor type at its place in that order and
\* the samples the one guard call returned at that place.
C13_GuardOnceBetweenGenerationAndWrite ==
    /\ guard_calls <= 1
    /\ cli_pc \in {"generate", "guard", "raised"} =>
          /\ guard_calls = 0
          /\ written = <<>>
    /\ cli_pc = "write" =>
          /\ guard_calls = 1
          /\ Keys(anchors) = Buildable(args)
          /\ list_of_arrays = Values(anchors)
          /\ new_list_of_arrays = EnsureAudioDoesntClip(list_of_arrays)
          /\ Len(written) <= Len(anchors)
          /\ \A i \in DOMAIN written :
                written[i] = [name |-> FileName(args.target, anchors[i].key),
                              audio |-> new_list_of_arrays[i]]

\* C13's case: a run with others given has generated all five anchors, some
\* quiet and some clipping, called the guard and written every file.
C13_Witness ==
    /\ cli_pc = "write"
    /\ args.others = "fit"
    /\ Len(anchors) = Len(GenerationOrder)
    /\ Len(written) = Len(anchors)
    /\ anchors[1].audio # anchors[Len(anchors)].audio
    /\ guard_calls = 1

====
